---- MODULE Spec2Model ----
(***************************************************************************)
(* Model of volatility/plugins/overlays/windows/windows.py: the VAD tree   *)
(* walker (_MMVAD.traverse, _MMVAD.dereference), the handle table walker   *)
(* (_HANDLE_TABLE), token validation and SID decoding (_TOKEN), and the    *)
(* masked pointer dereference (_EX_FAST_REF).                              *)
(***************************************************************************)
EXTENDS Integers, Sequences, FiniteSets, TLC

(***************************************************************************)
(* Bounds of the model.                                                    *)
(***************************************************************************)
\* Number of _MMVAD nodes in the memory image (node offsets are 1..MaxNodes).
MaxNodes == 3

\* Pointer slots in the page that one table array fills.  The code's page is
\* 0x1000 bytes (windows.py 323, 326): 1024 or 512 pointer slots, 512 or 256
\* entries.  The model scales the page down to PageSlots pointer slots; an
\* entry is twice as long as a pointer in both profiles, so the page holds
\* PageSlots \div 2 entries.
PageSlots == 4

\* The deepest table: TableCode levels 0..MaxLevel.
MaxLevel == 2

\* Number of valid next-level pointer slots in the image.
MaxPointers == 5

\* The value of a child pointer that does not dereference to a node.
NULL == 0

Nodes == 1..MaxNodes

(***************************************************************************)
(* State.                                                                  *)
(***************************************************************************)
VARIABLES
    \* --- VAD tree (memory image, read only) ---
    LeftChild,      \* [Nodes -> Nodes \cup {NULL}]: _MMVAD.LeftChild
    RightChild,     \* [Nodes -> Nodes \cup {NULL}]: _MMVAD.RightChild
    \* --- one call of _MMVAD.traverse on node 1, pulled to exhaustion ---
    frames,         \* stack of suspended generator frames [node, at]
    visited,        \* the set threaded through the recursive calls
    yielded,        \* offsets received by the consumer, in order
    vpc,            \* "idle" | "run" | "done" (StopIteration reached the consumer)
    \* --- handle table (memory image is read as the walk meets it) ---
    profile,        \* obj_profile: get_obj_size of "address" and "_HANDLE_TABLE_ENTRY"
    TableCode,      \* _HANDLE_TABLE.TableCode
    rootReadable,   \* whether the Array at the root offset is readable
    handle,         \* the handle ObReferenceObjectByHandle looks for; NoHandle: a plain handles() loop
    hstack,         \* stack of _make_handle_array generator frames
    pointersLeft,   \* valid pointer slots the image still has to lay out
    nextTable,      \* next free table address index
    handlesOut,     \* the object headers yielded by handles(), in order
    result,         \* what ObReferenceObjectByHandle returned
    broke,          \* history: the array the walk last left by `break` (line 336)
    hpc,            \* "idle" | "run" | "done"
    \* --- profile constants ---
    MAX_FAST_REF,   \* obj_profile.constants['MAX_FAST_REF']
    \* --- one call of _EPROCESS.get_token ---
    Token,          \* _EPROCESS.Token.Object: the raw value of the fast reference
    tokenReadable,  \* whether the address of the token is valid in the image
    TokenInUse,     \* _TOKEN.TokenInUse as stored
    SessionId,      \* _TOKEN.SessionId as stored
    tokenOut,       \* what get_token returned
    tpc,            \* "idle" | "done"
    \* --- one call of _TOKEN.get_sids, pulled to exhaustion ---
    UserAndGroupCount,  \* _TOKEN.UserAndGroupCount as stored
    UserAndGroups,  \* the _SID structures the entries of the array point to
    sidsOut,        \* the strings received by the consumer, in order
    spc,            \* "idle" | "run" | "done"
    \* --- _EX_FAST_REF.dereference_as and the split of TableCode ---
    Object,         \* _EX_FAST_REF.Object: the raw pointer value
    rawTableCode,   \* the value self.TableCode.v() of a handle table
    refOut,         \* the view dereference_as constructed
    tableSplit,     \* offset and table_levels as handles() computes them
    rpc,            \* set of the operations that have run
    \* --- one call of _MMVAD.dereference ---
    pool,           \* the 8 characters stored before the node
    obj_offset,     \* the offset of the node
    obj_parent,     \* the parent of the node view
    derefOut,       \* what dereference returned
    dpc,            \* "idle" | "done"
    \* --- an _OBJECT_HEADER, its body and its GrantedAccess ---
    BodyOffset,     \* obj_profile.get_obj_offset("_OBJECT_HEADER", "Body")
    tableEntries,   \* the _HANDLE_TABLE_ENTRY structures in the image
    headerFields,   \* the three offset fields stored in the header
    profileTypes,   \* the optional sub-header types obj_profile.has_type knows
    header,         \* the _OBJECT_HEADER view under study
    body,           \* what header.dereference_as(T) returned
    granted,        \* what body.obj_parent.GrantedAccess returned
    opc,            \* "idle" | "header" | "body" | "done"
    \* --- _EPROCESS.Peb and _EPROCESS.SessionId ---
    DirectoryTableBase, \* _EPROCESS.Pcb.DirectoryTableBase
    asAccepts,      \* whether the address space class accepts that dtb
    processMapped,  \* the addresses valid in the process address space
    PebField,       \* the raw member _EPROCESS.Peb: self.m("Peb").v()
    Session,        \* the pointer _EPROCESS.Session
    sessionIsValid, \* self.Session.is_valid(), in the kernel address space
    pebOut,         \* what the property Peb returned
    sessionOut,     \* what the property SessionId returned
    ppc,            \* set of the properties that have been read
    \* --- a handle table whose pointers lead back to its root page ---
    rootEntries     \* the root page read as an array of _HANDLE_TABLE_ENTRY

vadVars == <<LeftChild, RightChild, frames, visited, yielded, vpc>>

htVars == <<profile, TableCode, rootReadable, handle, hstack, pointersLeft,
            nextTable, handlesOut, result, broke, hpc>>

constVars == <<MAX_FAST_REF>>

tokVars == <<Token, tokenReadable, TokenInUse, SessionId, tokenOut, tpc>>

sidVars == <<UserAndGroupCount, UserAndGroups, sidsOut, spc>>

refVars == <<Object, rawTableCode, refOut, tableSplit, rpc>>

tagVars == <<pool, obj_offset, obj_parent, derefOut, dpc>>

epVars == <<DirectoryTableBase, asAccepts, processMapped, PebField, Session,
           sessionIsValid, pebOut, sessionOut, ppc>>

walkVars == <<rootEntries>>

ohVars == <<BodyOffset, tableEntries, headerFields, profileTypes, header, body,
           granted, opc>>

vars == <<vadVars, htVars, constVars, tokVars, sidVars, refVars, tagVars, ohVars,
          epVars, walkVars>>

\* What the actions of one component leave alone.
exceptVad ==
    <<htVars, constVars, tokVars, sidVars, refVars, tagVars, ohVars, epVars, walkVars>>

exceptHt ==
    <<vadVars, constVars, tokVars, sidVars, refVars, tagVars, ohVars, epVars, walkVars>>

exceptTok ==
    <<vadVars, htVars, constVars, sidVars, refVars, tagVars, ohVars, epVars, walkVars>>

exceptSid ==
    <<vadVars, htVars, constVars, tokVars, refVars, tagVars, ohVars, epVars, walkVars>>

exceptRef ==
    <<vadVars, htVars, constVars, tokVars, sidVars, tagVars, ohVars, epVars, walkVars>>

exceptTag ==
    <<vadVars, htVars, constVars, tokVars, sidVars, refVars, ohVars, epVars, walkVars>>

exceptOh ==
    <<vadVars, htVars, constVars, tokVars, sidVars, refVars, tagVars, epVars, walkVars>>

exceptEp ==
    <<vadVars, htVars, constVars, tokVars, sidVars, refVars, tagVars, ohVars, walkVars>>

\* obj.NoneObject: the explicit absent value.
NoneObject == [none |-> TRUE]

\* The variables of a component that is not exercised keep these values.
VadIdle ==
    /\ LeftChild = <<>> /\ RightChild = <<>> /\ frames = <<>>
    /\ visited = {} /\ yielded = <<>> /\ vpc = "off"

HtIdle ==
    /\ profile = <<>> /\ TableCode = 0 /\ rootReadable = FALSE /\ handle = 0
    /\ hstack = <<>> /\ pointersLeft = 0 /\ nextTable = 0 /\ handlesOut = <<>>
    /\ result = NoneObject /\ broke = NoneObject /\ hpc = "off"

ConstIdle == MAX_FAST_REF = 0

TokIdle ==
    /\ Token = 0 /\ tokenReadable = FALSE /\ TokenInUse = 0 /\ SessionId = 0
    /\ tokenOut = NoneObject /\ tpc = "off"

SidIdle ==
    /\ UserAndGroupCount = 0 /\ UserAndGroups = <<>> /\ sidsOut = <<>>
    /\ spc = "off"

RefIdle ==
    /\ Object = 0 /\ rawTableCode = 0 /\ refOut = NoneObject
    /\ tableSplit = NoneObject /\ rpc = {}

TagIdle ==
    /\ pool = <<>> /\ obj_offset = 0 /\ obj_parent = 0
    /\ derefOut = NoneObject /\ dpc = "off"

WalkIdle == rootEntries = <<>>

EpIdle ==
    /\ DirectoryTableBase = 0 /\ asAccepts = FALSE /\ processMapped = {}
    /\ PebField = 0 /\ Session = 0 /\ sessionIsValid = FALSE
    /\ pebOut = NoneObject /\ sessionOut = NoneObject /\ ppc = {}

OhIdle ==
    /\ BodyOffset = 0 /\ tableEntries = <<>> /\ headerFields = <<>>
    /\ profileTypes = {} /\ header = NoneObject
    /\ body = NoneObject /\ granted = NoneObject /\ opc = "off"

(***************************************************************************)
(* Helpers on sequences.                                                   *)
(***************************************************************************)
Top(s) == s[Len(s)]

Pop(s) == SubSeq(s, 1, Len(s) - 1)

SetTop(s, f) == [s EXCEPT ![Len(s)] = f]

NoDup(s) == \A i, j \in 1..Len(s) : i # j => s[i] # s[j]

Range(s) == {s[i] : i \in 1..Len(s)}

(***************************************************************************)
(* _MMVAD.traverse (windows.py 526-547).  The generator is modelled frame  *)
(* by frame: a frame is one activation of traverse, `at` is the place      *)
(* where it is suspended or about to run.                                  *)
(*   "enter": before the visited test (line 536)                           *)
(*   "left" : after `yield self`, about to iterate LeftChild.traverse      *)
(*   "right": left loop exhausted, about to iterate RightChild.traverse    *)
(*   "end"  : right loop exhausted, the generator returns                  *)
(***************************************************************************)
VadRoot == 1

\* Self, then the left subtree, then the right subtree, cut at depth `fuel`.
RECURSIVE PreOrder(_, _)
PreOrder(n, fuel) ==
    IF n = NULL \/ fuel = 0 THEN <<>>
    ELSE <<n>> \o PreOrder(LeftChild[n], fuel - 1) \o PreOrder(RightChild[n], fuel - 1)

\* The nodes in the order a depth-first walk from the root first meets them.
RECURSIVE FirstMet(_, _)
FirstMet(s, seen) ==
    IF s = <<>> THEN <<>>
    ELSE IF Head(s) \in seen THEN FirstMet(Tail(s), seen)
    ELSE <<Head(s)>> \o FirstMet(Tail(s), seen \cup {Head(s)})

\* The memory images considered.  The pointers of every node that can be
\* reached from the root are arbitrary (cycles, self loops, shared children).
\* The walker never reads a node it cannot reach, and it only compares offsets
\* for equality, so one image stands for all that differ in unreachable nodes
\* or in the naming of the offsets: unreachable nodes hold null pointers and
\* the reachable ones are numbered in the order FirstMet gives.
IsCanonical(met) ==
    /\ met = [i \in 1..Len(met) |-> i]
    /\ \A n \in (Len(met) + 1)..MaxNodes : LeftChild[n] = NULL /\ RightChild[n] = NULL

CanonicalImage == IsCanonical(FirstMet(PreOrder(VadRoot, MaxNodes), {}))

VadInit ==
    /\ LeftChild \in [Nodes -> Nodes \cup {NULL}]
    /\ \A n \in Nodes : LeftChild[n] <= n + 1   \* implied by CanonicalImage
    /\ RightChild \in [Nodes -> Nodes \cup {NULL}]
    /\ \A n \in Nodes \ {VadRoot} :                \* implied by CanonicalImage
          (LeftChild[n] # NULL \/ RightChild[n] # NULL)
              => \E m \in 1..(n - 1) : n \in {LeftChild[m], RightChild[m]}
    /\ CanonicalImage
    /\ frames = <<>>
    /\ visited = {}
    /\ yielded = <<>>
    /\ vpc = "idle"
    /\ HtIdle /\ ConstIdle /\ TokIdle /\ SidIdle /\ RefIdle /\ TagIdle /\ OhIdle /\ EpIdle
    /\ WalkIdle

\* root.traverse(): visited == None, so a fresh set is made (lines 532-533).
TraverseCall ==
    /\ vpc = "idle"
    /\ vpc' = "run"
    /\ frames' = <<[node |-> VadRoot, at |-> "enter"]>>
    /\ visited' = {}
    /\ UNCHANGED <<LeftChild, RightChild, yielded>>
    /\ UNCHANGED exceptVad

\* Lines 536-537: the offset is already in visited, the generator returns.
TraverseSkip ==
    /\ vpc = "run" /\ frames # <<>>
    /\ Top(frames).at = "enter"
    /\ Top(frames).node \in visited
    /\ frames' = Pop(frames)
    /\ UNCHANGED <<LeftChild, RightChild, visited, yielded, vpc>>
    /\ UNCHANGED exceptVad

\* TraverseYield with the visited test of line 536 left out.
TraverseYield_NoVisitedTest ==
    /\ vpc = "run" /\ frames # <<>>
    /\ Top(frames).at = "enter"
    /\ yielded' = Append(yielded, Top(frames).node)
    /\ visited' = IF Len(frames) > 1 THEN visited \cup {Top(frames).node}
                                     ELSE visited
    /\ frames' = SetTop(frames, [Top(frames) EXCEPT !.at = "left"])
    /\ UNCHANGED <<LeftChild, RightChild, vpc>>
    /\ UNCHANGED exceptVad

\* Line 539, `yield self`.  The value passes up through every enclosing
\* frame's for loop, each of which runs visited.add(c.obj_offset) (lines 542,
\* 546) before yielding it on; the outermost frame has no enclosing loop.
TraverseYield ==
    /\ vpc = "run" /\ frames # <<>>
    /\ Top(frames).at = "enter"
    /\ Top(frames).node \notin visited
    /\ yielded' = Append(yielded, Top(frames).node)
    /\ visited' = IF Len(frames) > 1 THEN visited \cup {Top(frames).node}
                                     ELSE visited
    /\ frames' = SetTop(frames, [Top(frames) EXCEPT !.at = "left"])
    /\ UNCHANGED <<LeftChild, RightChild, vpc>>
    /\ UNCHANGED exceptVad

\* TraverseLeft iterating the right child first.
TraverseLeft_RightFirst ==
    /\ vpc = "run" /\ frames # <<>>
    /\ Top(frames).at = "left"
    /\ LET n == Top(frames).node
           c == RightChild[n]
           here == SetTop(frames, [Top(frames) EXCEPT !.at = "right"])
       IN frames' = IF c = NULL THEN here
                    ELSE Append(here, [node |-> c, at |-> "enter"])
    /\ UNCHANGED <<LeftChild, RightChild, visited, yielded, vpc>>
    /\ UNCHANGED exceptVad

\* Line 541: self.LeftChild.traverse(visited = visited).  A pointer that
\* does not dereference gives an empty iteration.
TraverseLeft ==
    /\ vpc = "run" /\ frames # <<>>
    /\ Top(frames).at = "left"
    /\ LET n == Top(frames).node
           c == LeftChild[n]
           here == SetTop(frames, [Top(frames) EXCEPT !.at = "right"])
       IN frames' = IF c = NULL THEN here
                    ELSE Append(here, [node |-> c, at |-> "enter"])
    /\ UNCHANGED <<LeftChild, RightChild, visited, yielded, vpc>>
    /\ UNCHANGED exceptVad

\* Line 545: self.RightChild.traverse(visited = visited).
TraverseRight ==
    /\ vpc = "run" /\ frames # <<>>
    /\ Top(frames).at = "right"
    /\ LET n == Top(frames).node
           c == RightChild[n]
           here == SetTop(frames, [Top(frames) EXCEPT !.at = "end"])
       IN frames' = IF c = NULL THEN here
                    ELSE Append(here, [node |-> c, at |-> "enter"])
    /\ UNCHANGED <<LeftChild, RightChild, visited, yielded, vpc>>
    /\ UNCHANGED exceptVad

\* The end of the generator body: the frame is exhausted.
TraverseReturn ==
    /\ vpc = "run" /\ frames # <<>>
    /\ Top(frames).at = "end"
    /\ frames' = Pop(frames)
    /\ UNCHANGED <<LeftChild, RightChild, visited, yielded, vpc>>
    /\ UNCHANGED exceptVad

\* The outermost generator is exhausted: the consumer's loop ends.
TraverseDone ==
    /\ vpc = "run" /\ frames = <<>>
    /\ vpc' = "done"
    /\ UNCHANGED <<LeftChild, RightChild, frames, visited, yielded>>
    /\ UNCHANGED exceptVad

VadNext ==
    \/ TraverseCall
    \/ TraverseSkip
    \/ TraverseYield
    \/ TraverseLeft
    \/ TraverseRight
    \/ TraverseReturn
    \/ TraverseDone

SpecVad == VadInit /\ [][VadNext]_vars

\* The consumer keeps pulling: a generator that can take a step takes it.
SpecVadLive == VadInit /\ [][VadNext]_vars /\ WF_vars(VadNext)

(***************************************************************************)
(* Reference definitions for the tree claims.                              *)
(***************************************************************************)
\* Every node reachable from the root is reachable by exactly one path: a walk
\* cut at depth MaxNodes + 1 repeats a node iff there is a cycle or a shared child.
WellFormedTree == NoDup(PreOrder(VadRoot, MaxNodes + 1))

\* Some child pointer reachable from n points back to an ancestor or to itself.
RECURSIVE CycleFrom(_, _)
CycleFrom(n, ancestors) ==
    /\ n # NULL
    /\ \/ n \in ancestors
       \/ CycleFrom(LeftChild[n], ancestors \cup {n})
       \/ CycleFrom(RightChild[n], ancestors \cup {n})

HasCycle == CycleFrom(VadRoot, {})

IsPrefix(s, t) == Len(s) <= Len(t) /\ SubSeq(t, 1, Len(s)) = s

\* C1: on a well-formed tree (no cycle, no shared child) the traversal yields
\* every node exactly once in pre-order: what has been yielded so far is always
\* a prefix of self, left subtree, right subtree, and at the end it is all of it.
C1_PreOrder ==
    WellFormedTree =>
        /\ IsPrefix(yielded, PreOrder(VadRoot, MaxNodes + 1))
        /\ vpc = "done" => yielded = PreOrder(VadRoot, MaxNodes + 1)

\* A finished traversal of a full tree: the root has both subtrees.
C1_Witness ==
    /\ vpc = "done" /\ WellFormedTree
    /\ LeftChild[VadRoot] # NULL /\ RightChild[VadRoot] # NULL
    /\ Len(yielded) = 3

\* C2: on a graph with a cycle one traversal yields each offset at most once.
C2_AtMostOnce == HasCycle => NoDup(yielded)

\* C3: whatever the pointers, a consumer that keeps pulling reaches the end
\* of the sequence, after at most one yield per node plus one for the root.
C3_Terminates == <>(vpc = "done") /\ [](Len(yielded) <= MaxNodes + 1)

\* A traversal that ended on a graph with a cycle.
C3_Witness == vpc = "done" /\ HasCycle /\ Len(yielded) >= 2

(***************************************************************************)
(* Bit operations on Python integers (unbounded two's complement).         *)
(***************************************************************************)
RECURSIVE BitAnd(_, _)
BitAnd(a, b) ==
    IF a = 0 \/ b = 0 THEN 0
    ELSE IF a = -1 THEN b
    ELSE IF b = -1 THEN a
    ELSE (IF a % 2 = 1 /\ b % 2 = 1 THEN 1 ELSE 0) + 2 * BitAnd(a \div 2, b \div 2)

BitNot(a) == -a - 1

(***************************************************************************)
(* _HANDLE_TABLE (windows.py 299-390) and                                  *)
(* _EPROCESS.ObReferenceObjectByHandle (windows.py 251-265).               *)
(*                                                                         *)
(* A frame of hstack is one activation of _make_handle_array:              *)
(*   offset, level, depth : its arguments (depth is also its local, 342)   *)
(*   count                : slots per page for this level (322-327)        *)
(*   slots                : what memory holds in the Array at offset;      *)
(*                          <<>> when the Array is not readable (333)      *)
(*   first                : table address index of the first pointer slot  *)
(*   i                    : index (from 0) of the entry the loop is at     *)
(* A pointer slot is "invalid" (entry.is_valid() fails), "table" (leads to *)
(* a readable next-level array) or "dangling" (valid, but the Array at its *)
(* value is not readable).  An entry slot is "invalid", "none" (get_item   *)
(* gives no header), "untyped" (TypeIndex 0 / empty Type.Name) or "object".*)
(***************************************************************************)
Profiles == {[address |-> 4, entry |-> 8], [address |-> 8, entry |-> 16]}

get_obj_size(t) == IF t = "address" THEN profile.address ELSE profile.entry

LEVEL_MASK == 7

handle_multiplier == 4

NoHandle == -1

\* The scaled page, in bytes (0x1000 in lines 323 and 326).
PageSize == PageSlots * get_obj_size("address")

\* Tables lie at distinct addresses whose low three bits are clear.
TableAddr(k) == 8 * PageSize * k

PtrKinds == {"invalid", "dangling", "table"}

EntryKinds == {"invalid", "none", "untyped", "object"}

\* Lines 322-327.
Count(level) ==
    IF level > 0 THEN PageSize \div get_obj_size("address")
    ELSE PageSize \div get_obj_size("_HANDLE_TABLE_ENTRY")

Target(level) == IF level > 0 THEN "address" ELSE "_HANDLE_TABLE_ENTRY"

NumPointers(slots) ==
    Cardinality({j \in 1..Len(slots) : slots[j] \in {"table", "dangling"}})

\* The arrays of n slots considered: any valid slots in front, and behind the
\* first invalid slot, where the loop of line 334 does not get (break, line
\* 336), slots that are all alike.
Arrays(n, kinds) ==
    LET valid == kinds \ {"invalid"}
    IN [1..n -> valid] \cup
       {[j \in 1..n |-> IF j <= Len(front) THEN front[j]
                        ELSE IF j = Len(front) + 1 THEN "invalid" ELSE tail] :
            front \in UNION {[1..m -> valid] : m \in 0..(n - 1)}, tail \in kinds}

\* What memory can hold in the Array that _make_handle_array builds (329-331).
Contents(level, readable) ==
    IF ~readable THEN {<<>>}
    ELSE IF level > 0
    THEN {s \in Arrays(Count(level), PtrKinds) : NumPointers(s) <= pointersLeft}
    ELSE Arrays(Count(level), EntryKinds)

\* A fresh activation of _make_handle_array(offset, level, depth).
Activation(offset, level, depth, slots) ==
    [offset |-> offset, level |-> level, depth |-> depth, count |-> Count(level),
     slots |-> slots, first |-> nextTable, i |-> 0]

\* The entry the loop of line 334 is at, and the value a pointer slot holds.
EntryKind(f) == f.slots[f.i + 1]

EntryOffset(f) == f.offset + f.i * get_obj_size(Target(f.level))

EntryValue(f) == TableAddr(f.first + f.i)

\* Whether some slot placed after the one the loop is at is valid.
LaterValid(f) == \E j \in (f.i + 2)..Len(f.slots) : f.slots[j] # "invalid"

\* HandleValueOf with the divisor of a 32-bit entry (8 / 4) written in.
HandleValueOf_FixedDivisor(f) ==
    LET handle_level_base == f.depth * f.count * handle_multiplier
    IN ((EntryOffset(f) - f.offset) \div 2) + handle_level_base

\* Lines 346-353.
HandleValueOf(f) ==
    LET handle_level_base == f.depth * f.count * handle_multiplier
        handle_entry_size == get_obj_size("_HANDLE_TABLE_ENTRY")
    IN ((EntryOffset(f) - f.offset) \div (handle_entry_size \div handle_multiplier))
       + handle_level_base

\* get_item (307-313): the _OBJECT_HEADER, whose parent is the entry.
get_item(f, handle_value) ==
    IF EntryKind(f) = "none" THEN NoneObject
    ELSE [none |-> FALSE, HandleValue |-> handle_value, obj_parent |-> EntryOffset(f),
          typed |-> EntryKind(f) = "object"]

\* Lines 359-368: whether the item is yielded.
Yields(item) == IF item = NoneObject THEN FALSE ELSE item.typed

\* The generator on top of the stack ends: its caller's loop body goes on with
\* depth += 1 (342) and the next entry.
Return(stack) ==
    IF Len(stack) = 1 THEN <<>>
    ELSE SetTop(Pop(stack), [stack[Len(stack) - 1] EXCEPT !.depth = @ + 1, !.i = @ + 1])

\* The images and profiles considered; the consumer is chosen by `handle`.
HtImage ==
    /\ profile \in Profiles
    /\ TableCode \in {TableAddr(1) + l : l \in 0..MaxLevel}
    /\ rootReadable \in BOOLEAN
    /\ hstack = <<>>
    /\ pointersLeft = MaxPointers
    /\ nextTable = 2
    /\ handlesOut = <<>>
    /\ result = NoneObject
    /\ broke = NoneObject
    /\ hpc = "idle"
    /\ VadIdle /\ ConstIdle /\ TokIdle /\ SidIdle /\ RefIdle /\ TagIdle /\ OhIdle /\ EpIdle
    /\ WalkIdle

\* A caller that runs through all of handles().
HtInit == HtImage /\ handle = NoHandle

\* A caller of ObReferenceObjectByHandle(handle), for the handles of the
\* first two entries, on tables of less than MaxLevel levels.
ObRefInit ==
    /\ HtImage
    /\ BitAnd(TableCode, LEVEL_MASK) < MaxLevel
    /\ handle \in {handle_multiplier * k : k \in 0..1}

\* Lines 385-387 of handles(): the offset and the level count that a
\* TableCode value holds.
table_offset(code) == BitAnd(code, BitNot(LEVEL_MASK))

table_levels_of(code) == BitAnd(code, LEVEL_MASK)

\* handles() (382-389): split TableCode and start the walk at the root.
HandlesCall ==
    /\ hpc = "idle"
    /\ LET offset == table_offset(TableCode)
           table_levels == table_levels_of(TableCode)
       IN \E slots \in Contents(table_levels, rootReadable) :
            /\ hstack' = <<Activation(offset, table_levels, 0, slots)>>
            /\ pointersLeft' = pointersLeft - NumPointers(slots)
            /\ nextTable' = nextTable + Len(slots)
    /\ hpc' = "run"
    /\ UNCHANGED <<profile, TableCode, rootReadable, handle, handlesOut, result, broke>>
    /\ UNCHANGED exceptHt

\* ScanBreak with `continue` for `break`: the invalid entry alone is skipped.
ScanBreak_Continue ==
    /\ hpc = "run" /\ hstack # <<>>
    /\ Top(hstack).i < Len(Top(hstack).slots)
    /\ EntryKind(Top(hstack)) = "invalid"
    /\ hstack' = SetTop(hstack, [Top(hstack) EXCEPT !.i = @ + 1])
    /\ UNCHANGED <<profile, TableCode, rootReadable, handle, pointersLeft, nextTable,
                   handlesOut, result, broke, hpc>>
    /\ UNCHANGED exceptHt

\* Lines 335-336: the entry is not valid, the loop breaks and the generator ends.
ScanBreak ==
    /\ hpc = "run" /\ hstack # <<>>
    /\ Top(hstack).i < Len(Top(hstack).slots)
    /\ EntryKind(Top(hstack)) = "invalid"
    /\ hstack' = Return(hstack)
    /\ broke' = [none |-> FALSE, offset |-> Top(hstack).offset, level |-> Top(hstack).level,
                 at |-> Top(hstack).i, laterValid |-> LaterValid(Top(hstack))]
    /\ UNCHANGED <<profile, TableCode, rootReadable, handle, pointersLeft, nextTable,
                   handlesOut, result, hpc>>
    /\ UNCHANGED exceptHt

\* The loop of line 334 has run through the whole array (or the Array was
\* not readable, 333): the generator ends.
ScanEnd ==
    /\ hpc = "run" /\ hstack # <<>>
    /\ Top(hstack).i = Len(Top(hstack).slots)
    /\ hstack' = Return(hstack)
    /\ UNCHANGED <<profile, TableCode, rootReadable, handle, pointersLeft, nextTable,
                   handlesOut, result, broke, hpc>>
    /\ UNCHANGED exceptHt

\* Lines 338-341: a valid pointer slot, recurse one level down with this depth.
ScanDescend ==
    /\ hpc = "run" /\ hstack # <<>>
    /\ Top(hstack).i < Len(Top(hstack).slots)
    /\ Top(hstack).level > 0
    /\ EntryKind(Top(hstack)) # "invalid"
    /\ LET f == Top(hstack)
       IN \E slots \in Contents(f.level - 1, EntryKind(f) = "table") :
            /\ hstack' = Append(hstack,
                                Activation(EntryValue(f), f.level - 1, f.depth, slots))
            /\ pointersLeft' = pointersLeft - NumPointers(slots)
            /\ nextTable' = nextTable + Len(slots)
    /\ UNCHANGED <<profile, TableCode, rootReadable, handle, handlesOut, result, broke, hpc>>
    /\ UNCHANGED exceptHt

\* Lines 343-368 for an entry that yields nothing: get_item gave no header
\* (359-360) or the header has no type (364, 367).
ScanSkipEntry ==
    /\ hpc = "run" /\ hstack # <<>>
    /\ Top(hstack).i < Len(Top(hstack).slots)
    /\ Top(hstack).level = 0
    /\ EntryKind(Top(hstack)) # "invalid"
    /\ LET item == get_item(Top(hstack), HandleValueOf(Top(hstack)))
       IN ~Yields(item)
    /\ hstack' = SetTop(hstack, [Top(hstack) EXCEPT !.i = @ + 1])
    /\ UNCHANGED <<profile, TableCode, rootReadable, handle, pointersLeft, nextTable,
                   handlesOut, result, broke, hpc>>
    /\ UNCHANGED exceptHt

\* Lines 343-368 for an entry whose header is yielded; every enclosing
\* generator passes it on (340-341, 389-390).  In ObReferenceObjectByHandle
\* (258-261) the consumer returns the first header with the handle it wants.
ScanYield ==
    /\ hpc = "run" /\ hstack # <<>>
    /\ Top(hstack).i < Len(Top(hstack).slots)
    /\ Top(hstack).level = 0
    /\ EntryKind(Top(hstack)) # "invalid"
    /\ LET item == get_item(Top(hstack), HandleValueOf(Top(hstack)))
       IN /\ Yields(item)
          /\ handlesOut' = Append(handlesOut, item)
          /\ IF handle # NoHandle /\ item.HandleValue = handle
             THEN result' = item /\ hpc' = "done" /\ hstack' = hstack
             ELSE /\ UNCHANGED <<result, hpc>>
                  /\ hstack' = SetTop(hstack, [Top(hstack) EXCEPT !.i = @ + 1])
    /\ UNCHANGED <<profile, TableCode, rootReadable, handle, pointersLeft, nextTable, broke>>
    /\ UNCHANGED exceptHt

\* The outermost generator is exhausted; line 265 for a lookup.
HandlesDone ==
    /\ hpc = "run" /\ hstack = <<>>
    /\ hpc' = "done"
    /\ result' = NoneObject
    /\ UNCHANGED <<profile, TableCode, rootReadable, handle, hstack, pointersLeft,
                   nextTable, handlesOut, broke>>
    /\ UNCHANGED exceptHt

HtNext ==
    \/ HandlesCall
    \/ ScanBreak
    \/ ScanEnd
    \/ ScanDescend
    \/ ScanSkipEntry
    \/ ScanYield
    \/ HandlesDone

SpecHandle == HtInit /\ [][HtNext]_vars

SpecObRef == ObRefInit /\ [][HtNext]_vars

(***************************************************************************)
(* Claims about the handle table.                                          *)
(***************************************************************************)
TableLevels == table_levels_of(TableCode)

TableBase == table_offset(TableCode)

\* C4: for a table of level > 0 the handle values of the yielded headers are
\* strictly increasing in yield order, and each is divisible by 4.
C4_HandleValuesIncrease ==
    TableLevels > 0 =>
        /\ \A n \in 1..(Len(handlesOut) - 1) :
              handlesOut[n].HandleValue < handlesOut[n + 1].HandleValue
        /\ \A n \in 1..Len(handlesOut) : handlesOut[n].HandleValue % 4 = 0

\* Whether the first n slots all hold a valid entry with a typed header.
DenseObjects(slots, n) == n <= Len(slots) /\ \A j \in 1..n : slots[j] = "object"

\* C5: in a level 0 table whose first N slots are valid entries with typed
\* headers, the lookup of handle 4*i (i < N) returns the header whose parent is
\* entry slot i, for entry size 8 and for entry size 16: the scan never passes
\* slot i, and when the lookup has returned it stands at slot i with that header.
C5_LookupByHandle ==
    LET i == handle \div 4
    IN (/\ hstack # <<>> /\ hstack[1].level = 0 /\ handle = 4 * i
        /\ DenseObjects(hstack[1].slots, i + 1))
       => /\ hstack[1].i <= i
          /\ hpc = "done" =>
               /\ hstack[1].i = i
               /\ result = [none |-> FALSE, HandleValue |-> 4 * i,
                            obj_parent |-> TableBase + i * profile.entry,
                            typed |-> TRUE]

\* Handle 4 found in entry slot 1 of a table of 16-byte entries.
C5_Witness ==
    /\ hpc = "done" /\ TableLevels = 0 /\ handle = 4 /\ profile.entry = 16
    /\ result # NoneObject
    /\ result.obj_parent = TableBase + 16

\* Index (from 0) of the first invalid slot, the length if there is none.
FirstInvalid(slots) ==
    IF \E j \in 1..Len(slots) : slots[j] = "invalid"
    THEN (CHOOSE j \in 1..Len(slots) :
            /\ slots[j] = "invalid"
            /\ \A k \in 1..(j - 1) : slots[k] # "invalid") - 1
    ELSE Len(slots)

\* No loop stands behind an invalid slot of its array.
NeverPastInvalid ==
    \A k \in 1..Len(hstack) : hstack[k].i <= FirstInvalid(hstack[k].slots)

\* No yielded header has its entry in the entry array the walk last broke out
\* of, at the invalid slot or behind it.
NothingFromBehindBreak ==
    (broke # NoneObject /\ broke.level = 0) =>
        \A n \in 1..Len(handlesOut) :
            \/ handlesOut[n].obj_parent < broke.offset + broke.at * profile.entry
            \/ handlesOut[n].obj_parent >= broke.offset + PageSize

\* A generator ends only at the first invalid slot of its array or at the end
\* of the array, and its caller then goes on with the next slot.
LeavesAtFirstInvalid ==
    Len(hstack') < Len(hstack) =>
        /\ Top(hstack).i = FirstInvalid(Top(hstack).slots)
        /\ Len(hstack) > 1 =>
              /\ Len(hstack') = Len(hstack) - 1
              /\ Top(hstack').i = hstack[Len(hstack) - 1].i + 1
              /\ hpc' = "run"

\* C9: within one array no slot behind the first invalid slot contributes a
\* header, every slot before it is processed, and the caller's scan of the
\* sibling arrays goes on after it.
C9_StopAtFirstInvalid ==
    /\ [](NeverPastInvalid /\ NothingFromBehindBreak)
    /\ [][LeavesAtFirstInvalid]_vars

\* The walk broke out of an entry array that holds a valid slot behind the
\* invalid one, and later yielded a header from a following sibling array.
C9_Witness ==
    /\ broke # NoneObject /\ broke.level = 0 /\ broke.laterValid
    /\ handlesOut # <<>>
    /\ handlesOut[Len(handlesOut)].obj_parent >= broke.offset + PageSize

(***************************************************************************)
(* _EX_FAST_REF.dereference_as (lines 588-596).                            *)
(***************************************************************************)
\* The view built at the raw pointer value with the MAX_FAST_REF bits cleared.
dereference_as_KeepsMaskBits(theType, raw) ==
    [none |-> FALSE, theType |-> theType, offset |-> BitAnd(raw, MAX_FAST_REF)]

dereference_as(theType, raw) ==
    [none |-> FALSE, theType |-> theType,
     offset |-> BitAnd(raw, BitNot(MAX_FAST_REF))]

(***************************************************************************)
(* _EPROCESS.get_token and _TOKEN.is_valid (lines 237-249, 271-274).       *)
(***************************************************************************)
\* The largest TokenInUse and SessionId values stored in the images.
MaxFlag == 3

MaxSession == 12

\* _TOKEN.is_valid with `<= 10` for `< 10`.
is_valid_InclusiveBound ==
    tokenReadable /\ TokenInUse \in {0, 1} /\ SessionId <= 10

\* obj.CType.is_valid(self) and self.TokenInUse in (0, 1) and self.SessionId < 10
is_valid ==
    tokenReadable /\ TokenInUse \in {0, 1} /\ SessionId < 10

TokInit ==
    /\ MAX_FAST_REF \in {7, 15}
    /\ Token \in {32, 35}
    /\ tokenReadable \in BOOLEAN
    /\ TokenInUse \in 0..MaxFlag
    /\ SessionId \in 0..MaxSession
    /\ tokenOut = NoneObject
    /\ tpc = "idle"
    /\ VadIdle /\ HtIdle /\ SidIdle /\ RefIdle /\ TagIdle /\ OhIdle /\ EpIdle
    /\ WalkIdle

\* get_token (237-249): the token view if it is valid, else a NoneObject.
get_token ==
    /\ tpc = "idle"
    /\ LET token == dereference_as("_TOKEN", Token)
       IN tokenOut' = IF is_valid THEN token ELSE NoneObject
    /\ tpc' = "done"
    /\ UNCHANGED <<Token, tokenReadable, TokenInUse, SessionId>>
    /\ UNCHANGED exceptTok

TokNext == get_token

SpecToken == TokInit /\ [][TokNext]_vars

\* C6: get_token returns the token exactly when its bytes are readable, its
\* TokenInUse is 0 or 1 and its SessionId is below 10, and an absent value in
\* every other case; flag 2 is rejected, SessionId 9 is accepted with flag 0
\* or 1, SessionId 10 is rejected.
C6_TokenIffValid ==
    tpc = "done" =>
        /\ tokenOut # NoneObject <=>
              /\ tokenReadable
              /\ TokenInUse = 0 \/ TokenInUse = 1
              /\ SessionId + 1 <= 10
        /\ tokenOut # NoneObject =>
              /\ tokenOut.theType = "_TOKEN"
              /\ tokenOut.offset = Token - (Token % (MAX_FAST_REF + 1))
        /\ TokenInUse >= 2 => tokenOut = NoneObject
        /\ SessionId >= 10 => tokenOut = NoneObject
        /\ ~tokenReadable => tokenOut = NoneObject
        /\ (tokenReadable /\ TokenInUse \in {0, 1} /\ SessionId = 9)
              => tokenOut # NoneObject

\* A readable token with flag 1 and SessionId 9 was returned.
C6_Witness ==
    /\ tpc = "done" /\ tokenReadable /\ TokenInUse = 1 /\ SessionId = 9
    /\ tokenOut # NoneObject

(***************************************************************************)
(* _TOKEN.get_sids (lines 276-284).                                        *)
(*                                                                         *)
(* A string is a TLA+ string; str() of an integer and "-".join are         *)
(* computed digit by digit.  The array UserAndGroups holds                 *)
(* UserAndGroupCount entries (overlay, lines 108-111), each pointing to a  *)
(* readable _SID whose SubAuthority array holds SubAuthorityCount values   *)
(* (lines 113-115).                                                        *)
(***************************************************************************)
\* The longest UserAndGroups array laid out in an image.
MaxSids == 2

\* The largest Revision stored in an image.
MaxRevision == 2

Digit == <<"0", "1", "2", "3", "4", "5", "6", "7", "8", "9">>

\* str(n) for an integer n >= 0.
RECURSIVE str(_)
str(n) == IF n < 10 THEN Digit[n + 1] ELSE str(n \div 10) \o Digit[(n % 10) + 1]

\* "-".join(str(i) for i in items), items not empty.
RECURSIVE join(_)
join(items) ==
    IF Len(items) = 1 THEN str(items[1])
    ELSE str(items[1]) \o "-" \o join(Tail(items))

\* _SID_IDENTIFIER_AUTHORITY.Value: six bytes, most significant first.
AuthorityValues ==
    {<<0, 0, 0, 0, 0, 1>>, <<0, 0, 0, 0, 0, 5>>, <<0, 0, 0, 0, 1, 5>>}

SubAuthorities == {<<>>, <<32, 544>>, <<21, 100, 200, 1000>>}

Sids ==
    [Revision : 1..MaxRevision, Value : AuthorityValues,
     SubAuthority : SubAuthorities]

\* for i in sid.IdentifierAuthority.Value: id_auth = i  (lines 281-282):
\* id_auth is the last element the loop met.
id_auth(sid) == sid.Value[Len(sid.Value)]

\* Lines 283-284: the string yielded for one _SID.
SidString(sid) ==
    "S-" \o join(<<sid.Revision, id_auth(sid)>> \o sid.SubAuthority)

\* Line 278: self.UserAndGroupCount < 0xFFFF
CountIsSane == UserAndGroupCount < 65535

\* A count the array in the image agrees with, or a corrupted count of 0xFFFF
\* or more over whatever the image holds.
SidInit ==
    /\ UserAndGroups \in UNION {[1..n -> Sids] : n \in 0..MaxSids}
    /\ UserAndGroupCount \in {Len(UserAndGroups), 65535, 65536}
    /\ sidsOut = <<>>
    /\ spc = "idle"
    /\ VadIdle /\ HtIdle /\ ConstIdle /\ TokIdle /\ RefIdle /\ TagIdle /\ OhIdle /\ EpIdle
    /\ WalkIdle

\* The consumer calls get_sids() and pulls the first time: the guard is passed.
GetSidsCall ==
    /\ spc = "idle"
    /\ CountIsSane
    /\ spc' = "run"
    /\ UNCHANGED <<UserAndGroupCount, UserAndGroups, sidsOut>>
    /\ UNCHANGED exceptSid

\* The guard fails: the generator ends without a yield.
GetSidsRejected ==
    /\ spc = "idle"
    /\ ~CountIsSane
    /\ spc' = "done"
    /\ UNCHANGED <<UserAndGroupCount, UserAndGroups, sidsOut>>
    /\ UNCHANGED exceptSid

\* One turn of the loop of line 279: the next entry's string is yielded.
GetSidsYield ==
    /\ spc = "run"
    /\ Len(sidsOut) < Len(UserAndGroups)
    /\ sidsOut' = Append(sidsOut, SidString(UserAndGroups[Len(sidsOut) + 1]))
    /\ UNCHANGED <<UserAndGroupCount, UserAndGroups, spc>>
    /\ UNCHANGED exceptSid

\* The array is exhausted: StopIteration reaches the consumer.
GetSidsDone ==
    /\ spc = "run"
    /\ Len(sidsOut) = Len(UserAndGroups)
    /\ spc' = "done"
    /\ UNCHANGED <<UserAndGroupCount, UserAndGroups, sidsOut>>
    /\ UNCHANGED exceptSid

SidNext ==
    \/ GetSidsCall
    \/ GetSidsRejected
    \/ GetSidsYield
    \/ GetSidsDone

SpecSids == SidInit /\ [][SidNext]_vars

\* The identifier authority as a number: the six bytes, most significant first.
RECURSIVE BigEndian(_)
BigEndian(bytes) ==
    IF bytes = <<>> THEN 0
    ELSE 256 * BigEndian(SubSeq(bytes, 1, Len(bytes) - 1)) + bytes[Len(bytes)]

\* Decimal digits of n, as a sequence of one-character strings.
RECURSIVE Decimal(_)
Decimal(n) ==
    IF n < 10 THEN <<Digit[n + 1]>> ELSE Append(Decimal(n \div 10), Digit[(n % 10) + 1])

RECURSIVE Concat(_)
Concat(chars) == IF chars = <<>> THEN "" ELSE chars[1] \o Concat(Tail(chars))

RECURSIVE Dashed(_)
Dashed(items) ==
    IF items = <<>> THEN <<>> ELSE <<"-">> \o Decimal(items[1]) \o Dashed(Tail(items))

\* 'S-' revision '-' authority, then '-' and each subauthority in stored order.
CanonicalSid(sid) ==
    Concat(<<"S">> \o Dashed(<<sid.Revision, BigEndian(sid.Value)>> \o sid.SubAuthority))

ExampleSid ==
    [Revision |-> 1, Value |-> <<0, 0, 0, 0, 0, 5>>,
     SubAuthority |-> <<21, 100, 200, 1000>>]

\* C7: with UserAndGroupCount below 0xFFFF get_sids yields, in entry order,
\* 'S-' revision '-' identifier authority value and '-' subauthority for each
\* subauthority in stored order, in decimal; 'S-1-5-21-100-200-1000' for
\* revision 1, authority 5, subauthorities 21, 100, 200, 1000; with a count of
\* 0xFFFF or more it yields nothing.
C7_SidStrings ==
    /\ UserAndGroupCount >= 65535 => sidsOut = <<>>
    /\ UserAndGroupCount < 65535 =>
          /\ \A k \in 1..Len(sidsOut) : sidsOut[k] = CanonicalSid(UserAndGroups[k])
          /\ spc = "done" => Len(sidsOut) = UserAndGroupCount
    /\ \A k \in 1..Len(sidsOut) :
          UserAndGroups[k] = ExampleSid => sidsOut[k] = "S-1-5-21-100-200-1000"

\* What get_sids does satisfy: the count guard, the order, the example, and
\* the strings of the SIDs whose authority fits in the last byte of Value.
SidStringsOfSingleByteAuthority ==
    /\ UserAndGroupCount >= 65535 => sidsOut = <<>>
    /\ UserAndGroupCount < 65535 =>
          /\ \A k \in 1..Len(sidsOut) :
                BigEndian(UserAndGroups[k].Value) < 256
                    => sidsOut[k] = CanonicalSid(UserAndGroups[k])
          /\ spc = "done" => Len(sidsOut) = UserAndGroupCount
    /\ \A k \in 1..Len(sidsOut) :
          UserAndGroups[k] = ExampleSid => sidsOut[k] = "S-1-5-21-100-200-1000"

(***************************************************************************)
(* The masked pointer: _EX_FAST_REF.dereference_as (588-596) and the split *)
(* of TableCode at the head of _HANDLE_TABLE.handles (382-387), over a     *)
(* wide range of raw values.                                               *)
(***************************************************************************)
\* Raw pointer values 0..MaxRaw, and two larger ones.
MaxRaw == 40

RawValues == 0..MaxRaw \cup {4099, 2147483647}

RefInit ==
    /\ MAX_FAST_REF \in {7, 15}
    /\ Object \in RawValues
    /\ rawTableCode \in RawValues
    /\ refOut = NoneObject
    /\ tableSplit = NoneObject
    /\ rpc = {}
    /\ VadIdle /\ HtIdle /\ TokIdle /\ SidIdle /\ TagIdle /\ OhIdle /\ EpIdle
    /\ WalkIdle

\* ref.dereference_as(theType) for a fast reference whose Object is `Object`.
FastRefDereferenceAs ==
    /\ "dereference_as" \notin rpc
    /\ \E theType \in {"_TOKEN", "_EPROCESS"} :
          refOut' = dereference_as(theType, Object)
    /\ rpc' = rpc \cup {"dereference_as"}
    /\ UNCHANGED <<Object, rawTableCode, tableSplit>>
    /\ UNCHANGED exceptRef

\* handles() (382-389) on a table whose root array is not readable:
\* _make_handle_array(offset, table_levels) is called and yields nothing.
\* tableSplit records the arguments of that call.
HandlesSplit ==
    /\ "handles" \notin rpc
    /\ tableSplit' = [none |-> FALSE,
                      offset |-> table_offset(rawTableCode),
                      table_levels |-> table_levels_of(rawTableCode)]
    /\ rpc' = rpc \cup {"handles"}
    /\ UNCHANGED <<Object, rawTableCode, refOut>>
    /\ UNCHANGED exceptRef

RefNext ==
    \/ FastRefDereferenceAs
    \/ HandlesSplit

SpecRef == RefInit /\ [][RefNext]_vars

\* Bit i of a non-negative integer.
Bit(x, i) == (x \div (2 ^ i)) % 2

Bits == 0..30

\* C8: dereference_as builds the view at the raw value with the bits of
\* MAX_FAST_REF cleared: no mask bit is set in the offset, every other bit is
\* the raw value's, and 0x1003 with mask 7 gives 0x1000.  handles() splits
\* TableCode the same way with mask 7: the base has the low three bits
\* cleared, the level is the low three bits, and base + level = TableCode.
C8_MaskedPointer ==
    /\ "dereference_as" \in rpc =>
          /\ \A i \in Bits :
                Bit(refOut.offset, i) =
                    IF Bit(MAX_FAST_REF, i) = 1 THEN 0 ELSE Bit(Object, i)
          /\ refOut.offset >= 0
          /\ (Object = 4099 /\ MAX_FAST_REF = 7) => refOut.offset = 4096
    /\ "handles" \in rpc =>
          /\ \A i \in Bits :
                /\ Bit(tableSplit.offset, i) =
                      IF i < 3 THEN 0 ELSE Bit(rawTableCode, i)
                /\ Bit(tableSplit.table_levels, i) =
                      IF i < 3 THEN Bit(rawTableCode, i) ELSE 0
          /\ tableSplit.offset >= 0 /\ tableSplit.table_levels >= 0
          /\ tableSplit.offset + tableSplit.table_levels = rawTableCode

\* 0x1003 was dereferenced under mask 7, and a TableCode with level bits and
\* base bits was split.
C8_Witness ==
    /\ rpc = {"dereference_as", "handles"}
    /\ Object = 4099 /\ MAX_FAST_REF = 7 /\ refOut.offset = 4096
    /\ tableSplit.table_levels = 2 /\ tableSplit.offset = 8

(***************************************************************************)
(* _MMVAD.dereference (lines 497-524).                                     *)
(***************************************************************************)
\* The node offsets and parents considered are 1..MaxViews.
MaxViews == 2

VadTags ==
    {<<"V", "a", "d", "l">>, <<"V", "a", "d", "S">>, <<"V", "a", "d", " ">>,
     <<"V", "a", "d", "F">>, <<"V", "a", "d", "m">>}

\* Other contents of the four bytes before a node.
OtherTags ==
    {<<"V", "a", "d", "L">>, <<"V", "a", "d", "s">>, <<"V", "a", "d", "x">>,
     <<" ", "V", "a", "d">>, <<"M", "m", "S", "t">>, <<" ", " ", " ", " ">>}

\* Lines 497-502.
tag_map_ShortIsLong ==
    [t \in {"Vadl", "VadS", "Vad ", "VadF", "Vadm"} |-> "_MMVAD_LONG"]

tag_map ==
    [t \in {"Vadl", "VadS", "Vad ", "VadF", "Vadm"} |->
        IF t \in {"VadS", "VadF"} THEN "_MMVAD_SHORT" ELSE "_MMVAD_LONG"]

\* The overlay (lines 122-126): Tag is the String of length 4 at offset -4.
\* pool[k] is the character at obj_offset - 9 + k.
Tag == pool[5] \o pool[6] \o pool[7] \o pool[8]

\* Python's None.
None == [view |-> FALSE]

TagInit ==
    /\ \E before \in VadTags \cup OtherTags, tag \in VadTags \cup OtherTags :
          pool = before \o tag
    /\ obj_offset \in 1..MaxViews
    /\ obj_parent \in 1..MaxViews
    /\ derefOut = None
    /\ dpc = "idle"
    /\ VadIdle /\ HtIdle /\ ConstIdle /\ TokIdle /\ SidIdle /\ RefIdle /\ OhIdle /\ EpIdle
    /\ WalkIdle

\* dereference (518-524): the view of the type the tag maps to, or None.
dereference ==
    /\ dpc = "idle"
    /\ LET real_type == IF Tag \in DOMAIN tag_map THEN tag_map[Tag] ELSE ""
       IN derefOut' = IF real_type = "" THEN None
                      ELSE [view |-> TRUE, theType |-> real_type,
                            offset |-> obj_offset, parent |-> obj_parent]
    /\ dpc' = "done"
    /\ UNCHANGED <<pool, obj_offset, obj_parent>>
    /\ UNCHANGED exceptTag

TagNext == dereference

SpecTag == TagInit /\ [][TagNext]_vars

\* The four characters stored just before the node.
StoredTag == SubSeq(pool, Len(pool) - 3, Len(pool))

MaxEntries == 2

AccessMasks == {1, 2}

ObjectPointers == {64, 67}

\* Offsets at which a header is built on its own.
HeaderOffsets == {64, 128}

\* Lines 399-402.
optional_headers ==
    << <<"NameInfo", "NameInfoOffset", "_OBJECT_HEADER_NAME_INFO">>,
       <<"HandleInfo", "HandleInfoOffset", "_OBJECT_HEADER_HANDLE_INFO">>,
       <<"HandleInfo", "QuotaInfoOffset", "_OBJECT_HEADER_QUOTA_INFO">> >>

OffsetFields == {optional_headers[k][2] : k \in 1..Len(optional_headers)}

OptionalTypes == {optional_headers[k][3] : k \in 1..Len(optional_headers)}

\* The value an offset field holds when its sub-header is present.
StoredOffset(field) ==
    IF field = "NameInfoOffset" THEN 16
    ELSE IF field = "HandleInfoOffset" THEN 24 ELSE 40

\* o.size() of a sub-header view.
SubHeaderSize(objtype) == IF objtype = "_OBJECT_HEADER_HANDLE_INFO" THEN 8 ELSE 16

\* One turn of the loop of line 416: the accessors and the preamble size
\* after the turns k..3, given those before.
RECURSIVE find_optional_headers(_, _, _, _, _)
find_optional_headers(offset, fields, types, k, acc) ==
    IF k > Len(optional_headers) THEN acc
    ELSE LET name == optional_headers[k][1]
             name_offset == optional_headers[k][2]
             objtype == optional_headers[k][3]
             header_offset == fields[name_offset]
             o == IF header_offset # 0
                  THEN [none |-> FALSE, theType |-> objtype,
                        offset |-> offset - header_offset]
                  ELSE NoneObject
         IN IF objtype \in types
            THEN find_optional_headers(offset, fields, types, k + 1,
                    [attrs |-> [n \in DOMAIN acc.attrs \cup {name} |->
                                   IF n = name THEN o ELSE acc.attrs[n]],
                     preamble |-> acc.preamble +
                                  IF o # NoneObject THEN SubHeaderSize(objtype) ELSE 0])
            ELSE find_optional_headers(offset, fields, types, k + 1, acc)

\* _OBJECT_HEADER.__init__ (404-410): parent 0 stands for no parent, k for
\* entry k of tableEntries.
ObjectHeader(offset, parent, handle_value, fields, types) ==
    LET found == find_optional_headers(offset, fields, types, 1,
                                       [attrs |-> <<>>, preamble |-> 0])
    IN [none |-> FALSE, theType |-> "_OBJECT_HEADER", offset |-> offset,
        parent |-> parent, HandleValue |-> handle_value,
        attrs |-> found.attrs, preamble |-> found.preamble]

\* _OBJECT_HEADER.dereference_as with the view built at the header itself.
HeaderDereference_AtHeader(h, theType) ==
    [none |-> FALSE, theType |-> theType, offset |-> h.offset, parent |-> h]

\* _OBJECT_HEADER.dereference_as (446-449): a view at Body.obj_offset.
HeaderDereference(h, theType) ==
    [none |-> FALSE, theType |-> theType, offset |-> h.offset + BodyOffset,
     parent |-> h]

\* _OBJECT_HEADER.GrantedAccess (440-444).
GrantedAccess(h) ==
    IF h.parent # 0
    THEN [none |-> FALSE, v |-> tableEntries[h.parent].GrantedAccess]
    ELSE NoneObject


OhInit ==
    /\ MAX_FAST_REF \in {7, 15}
    /\ BodyOffset \in {24, 48}
    /\ tableEntries \in [1..MaxEntries ->
                           [Object : ObjectPointers, GrantedAccess : AccessMasks]]
    /\ headerFields \in {[f \in OffsetFields |->
                            IF f \in present THEN StoredOffset(f) ELSE 0] :
                         present \in SUBSET OffsetFields}
    /\ profileTypes \in SUBSET OptionalTypes
    /\ header = NoneObject
    /\ body = NoneObject
    /\ granted = NoneObject
    /\ opc = "idle"
    /\ VadIdle /\ HtIdle /\ TokIdle /\ SidIdle /\ RefIdle /\ TagIdle /\ EpIdle
    /\ WalkIdle

\* get_item(entry, handle_value) (307-313): the header the entry's Object
\* points to, with the entry as its parent.
HeaderFromEntry ==
    /\ opc = "idle"
    /\ \E k \in 1..MaxEntries :
          header' = ObjectHeader(
                        dereference_as("_OBJECT_HEADER", tableEntries[k].Object).offset,
                        k, handle_multiplier * (k - 1), headerFields, profileTypes)
    /\ opc' = "header"
    /\ UNCHANGED <<BodyOffset, tableEntries, headerFields, profileTypes, body, granted>>
    /\ UNCHANGED exceptOh

\* obj_profile.Object("_OBJECT_HEADER", offset = ...): no parent is given.
HeaderAlone ==
    /\ opc = "idle"
    /\ \E offset \in HeaderOffsets :
          header' = ObjectHeader(offset, 0, 0, headerFields, profileTypes)
    /\ opc' = "header"
    /\ UNCHANGED <<BodyOffset, tableEntries, headerFields, profileTypes, body, granted>>
    /\ UNCHANGED exceptOh

\* header.dereference_as(theType) (446-449).
HeaderDereferenceAs ==
    /\ opc = "header"
    /\ \E theType \in {"_FILE_OBJECT", "_EPROCESS"} :
          body' = HeaderDereference(header, theType)
    /\ opc' = "body"
    /\ UNCHANGED <<BodyOffset, tableEntries, headerFields, profileTypes, header, granted>>
    /\ UNCHANGED exceptOh

\* body.obj_parent.GrantedAccess (440-444).
ReadGrantedAccess ==
    /\ opc = "body"
    /\ granted' = GrantedAccess(body.parent)
    /\ opc' = "done"
    /\ UNCHANGED <<BodyOffset, tableEntries, headerFields, profileTypes, header, body>>
    /\ UNCHANGED exceptOh

OhNext ==
    \/ HeaderFromEntry
    \/ HeaderAlone
    \/ HeaderDereferenceAs
    \/ ReadGrantedAccess

SpecHeader == OhInit /\ [][OhNext]_vars

\* C11: h.dereference_as(T) is a view of type T at h.offset + the offset of
\* Body whose parent is h; the GrantedAccess seen from a body reached through
\* a handle table entry is that entry's, and absent when the header has no
\* parent.
C11_BodyOfHeader ==
    /\ opc \in {"body", "done"} =>
          /\ body.theType \in {"_FILE_OBJECT", "_EPROCESS"}
          /\ body.offset - header.offset = BodyOffset
          /\ body.parent = header
    /\ opc = "done" =>
          /\ \A k \in 1..MaxEntries :
                (header.parent = k) =>
                    /\ granted # NoneObject
                    /\ granted.v = tableEntries[k].GrantedAccess
          /\ header.parent = 0 => granted = NoneObject

\* A body reached through the second of two entries with unlike access masks.
C11_Witness ==
    /\ opc = "done" /\ header.parent = 2
    /\ tableEntries[1].GrantedAccess # tableEntries[2].GrantedAccess
    /\ granted # NoneObject
    /\ body.offset > header.offset

\* The three optional sub-headers: accessor, offset field, type.
SubHeaders ==
    {<<"NameInfo", "NameInfoOffset", "_OBJECT_HEADER_NAME_INFO">>,
     <<"HandleInfo", "HandleInfoOffset", "_OBJECT_HEADER_HANDLE_INFO">>,
     <<"QuotaInfo", "QuotaInfoOffset", "_OBJECT_HEADER_QUOTA_INFO">>}

\* The accessor of one sub-header, as its own offset field alone decides it.
AccessorIs(h, sub) ==
    /\ sub[1] \in DOMAIN h.attrs
    /\ h.attrs[sub[1]] =
          IF headerFields[sub[2]] # 0
          THEN [none |-> FALSE, theType |-> sub[3],
                offset |-> h.offset - headerFields[sub[2]]]
          ELSE NoneObject

\* C13: a constructed header has, for each of name info, handle info and
\* quota info whose type the profile has, an accessor that is a view of that
\* type at header offset - its own offset field when the field is non-zero
\* and absent when it is zero, whatever the other offset fields hold.
C13_OptionalHeaders ==
    opc \in {"header", "body", "done"} =>
        \A sub \in SubHeaders : sub[3] \in profileTypes => AccessorIs(header, sub)

\* What the constructor does satisfy: the name info accessor always, and the
\* handle info accessor in a profile without _OBJECT_HEADER_QUOTA_INFO.
NameInfoAndLoneHandleInfo ==
    opc \in {"header", "body", "done"} =>
        \A sub \in SubHeaders :
            /\ sub[3] \in profileTypes
            /\ \/ sub[1] = "NameInfo"
               \/ sub[1] = "HandleInfo" /\ "_OBJECT_HEADER_QUOTA_INFO" \notin profileTypes
            => AccessorIs(header, sub)

(***************************************************************************)
(* _EPROCESS.Peb, SessionId, get_process_address_space (lines 168-218).    *)
(*                                                                         *)
(* The address space class either accepts the dtb and gives an address     *)
(* space, or rejects it with an AssertionError.  An object built at an     *)
(* address that is not valid in its address space is a NoneObject.         *)
(***************************************************************************)
\* Addresses 0..MaxAddress, and directory table bases 1..MaxDtb.
MaxAddress == 3

MaxDtb == 2

Addresses == 0..MaxAddress

\* get_process_address_space (205-218): the AssertionError is caught and
\* answered with a NoneObject.
get_process_address_space ==
    IF asAccepts
    THEN [none |-> FALSE, dtb |-> DirectoryTableBase, astype |-> "virtual"]
    ELSE NoneObject

\* obj_profile.Object(theType, offset, vm): a view, if the offset is valid in vm.
ProcessObject(theType, offset, vm) ==
    IF offset \in processMapped
    THEN [none |-> FALSE, theType |-> theType, offset |-> offset, vm |-> vm]
    ELSE NoneObject

\* The property Peb without the test of line 182.
Peb_NoValidityTest ==
    LET process_ad == get_process_address_space
    IN IF process_ad # NoneObject
       THEN [none |-> FALSE, theType |-> "_PEB", offset |-> PebField,
             vm |-> process_ad]
       ELSE NoneObject

\* The property Peb (168-185).
Peb ==
    LET process_ad == get_process_address_space
    IN IF process_ad # NoneObject
       THEN LET peb == ProcessObject("_PEB", PebField, process_ad)
            IN IF peb # NoneObject THEN peb ELSE NoneObject
       ELSE NoneObject

\* The property SessionId (192-203): the member SessionId of the
\* _MM_SESSION_SPACE view, a NoneObject if that view is one.
ProcessSessionId ==
    IF sessionIsValid
    THEN LET process_space == get_process_address_space
         IN IF process_space # NoneObject
            THEN LET space == ProcessObject("_MM_SESSION_SPACE", Session, process_space)
                 IN IF space # NoneObject
                    THEN [none |-> FALSE, member |-> "SessionId", of |-> space]
                    ELSE NoneObject
            ELSE NoneObject
    ELSE NoneObject

EpInit ==
    /\ DirectoryTableBase \in 1..MaxDtb
    /\ asAccepts \in BOOLEAN
    /\ processMapped \in SUBSET Addresses
    /\ PebField \in Addresses
    /\ Session \in Addresses
    /\ sessionIsValid \in BOOLEAN
    /\ pebOut = NoneObject
    /\ sessionOut = NoneObject
    /\ ppc = {}
    /\ VadIdle /\ HtIdle /\ ConstIdle /\ TokIdle /\ SidIdle /\ RefIdle /\ TagIdle
    /\ WalkIdle
    /\ OhIdle

\* A caller reads task.Peb.
ReadPeb ==
    /\ "Peb" \notin ppc
    /\ pebOut' = Peb
    /\ ppc' = ppc \cup {"Peb"}
    /\ UNCHANGED <<DirectoryTableBase, asAccepts, processMapped, PebField, Session,
                   sessionIsValid, sessionOut>>
    /\ UNCHANGED exceptEp

\* A caller reads task.SessionId.
ReadSessionId ==
    /\ "SessionId" \notin ppc
    /\ sessionOut' = ProcessSessionId
    /\ ppc' = ppc \cup {"SessionId"}
    /\ UNCHANGED <<DirectoryTableBase, asAccepts, processMapped, PebField, Session,
                   sessionIsValid, pebOut>>
    /\ UNCHANGED exceptEp

EpNext ==
    \/ ReadPeb
    \/ ReadSessionId

SpecProcess == EpInit /\ [][EpNext]_vars

\* C12: Peb is a _PEB view only when the process address space was derived
\* from DirectoryTableBase and the view built in it is valid; it is an absent
\* value when the derivation is rejected or the view is not valid.  SessionId
\* is an absent value when the Session pointer is invalid or the address
\* space cannot be derived.
C12_AbsentNotError ==
    /\ "Peb" \in ppc =>
          /\ pebOut # NoneObject =>
                /\ asAccepts /\ PebField \in processMapped
                /\ pebOut.theType = "_PEB" /\ pebOut.offset = PebField
                /\ pebOut.vm.dtb = DirectoryTableBase
          /\ ~asAccepts => pebOut = NoneObject
          /\ PebField \notin processMapped => pebOut = NoneObject
    /\ "SessionId" \in ppc =>
          /\ ~sessionIsValid => sessionOut = NoneObject
          /\ ~asAccepts => sessionOut = NoneObject

\* Both properties were read on a process whose dtb is rejected, and on one
\* whose address space does not map the Peb.
C12_Witness ==
    /\ ppc = {"Peb", "SessionId"}
    /\ \/ ~asAccepts /\ PebField \in processMapped /\ sessionIsValid
       \/ asAccepts /\ PebField \notin processMapped /\ ~sessionIsValid
    /\ pebOut = NoneObject /\ sessionOut = NoneObject

(***************************************************************************)
(* The handle table walk over images whose next-level pointers point back  *)
(* to the table that holds them.                                           *)
(*                                                                         *)
(* The root page is the one readable table page: a "table" slot of it      *)
(* holds the offset of the root page itself.  Read again one level down    *)
(* as an array of pointers the page holds the same slots; read as an array *)
(* of entries it is the same bytes under another type, rootEntries.        *)
(***************************************************************************)
\* Number of valid pointer slots in the root page.
WalkPointers == 2

WalkInit ==
    /\ profile \in Profiles
    /\ TableCode \in {TableAddr(1) + l : l \in 0..MaxLevel}
    /\ rootReadable \in BOOLEAN
    /\ rootEntries \in Arrays(Count(0), EntryKinds)
    /\ handle = NoHandle
    /\ hstack = <<>>
    /\ pointersLeft = WalkPointers
    /\ nextTable = 2
    /\ handlesOut = <<>>
    /\ result = NoneObject
    /\ broke = NoneObject
    /\ hpc = "idle"
    /\ VadIdle /\ ConstIdle /\ TokIdle /\ SidIdle /\ RefIdle /\ TagIdle /\ OhIdle
    /\ EpIdle

\* The frame of _make_handle_array(root page, level, depth).
RootAgain(level, depth) ==
    [offset |-> hstack[1].offset, level |-> level, depth |-> depth,
     count |-> Count(level),
     slots |-> IF level > 0 THEN hstack[1].slots ELSE rootEntries,
     first |-> hstack[1].first, i |-> 0]

\* ScanDescendBack recursing with the level it was called with.
ScanDescendBack_SameLevel ==
    /\ hpc = "run" /\ hstack # <<>>
    /\ Top(hstack).i < Len(Top(hstack).slots)
    /\ Top(hstack).level > 0
    /\ EntryKind(Top(hstack)) = "table"
    /\ hstack' = Append(hstack, RootAgain(Top(hstack).level, Top(hstack).depth))
    /\ UNCHANGED <<profile, TableCode, rootReadable, handle, pointersLeft, nextTable,
                   handlesOut, result, broke, hpc>>
    /\ UNCHANGED exceptHt

\* Lines 338-341 for a pointer slot that holds the offset of the root page:
\* _make_handle_array(entry, level - 1, depth).
ScanDescendBack ==
    /\ hpc = "run" /\ hstack # <<>>
    /\ Top(hstack).i < Len(Top(hstack).slots)
    /\ Top(hstack).level > 0
    /\ EntryKind(Top(hstack)) = "table"
    /\ hstack' = Append(hstack, RootAgain(Top(hstack).level - 1, Top(hstack).depth))
    /\ UNCHANGED <<profile, TableCode, rootReadable, handle, pointersLeft, nextTable,
                   handlesOut, result, broke, hpc>>
    /\ UNCHANGED exceptHt

\* Lines 338-341 for a valid pointer slot whose Array is not readable.
ScanDescendUnreadable ==
    /\ hstack # <<>>
    /\ Top(hstack).i < Len(Top(hstack).slots)
    /\ EntryKind(Top(hstack)) = "dangling"
    /\ ScanDescend

WalkNext ==
    \/ HandlesCall
    \/ ScanBreak
    \/ ScanEnd
    \/ ScanDescendUnreadable
    \/ ScanDescendBack
    \/ ScanSkipEntry
    \/ ScanYield
    \/ HandlesDone

\* Every pull of the consumer runs the generator to its next yield or its end.
SpecWalk == WalkInit /\ [][WalkNext]_vars /\ WF_vars(WalkNext)

\* The walk of SpecHandle, over the images without back pointers, run on.
SpecHandleLive == HtInit /\ [][HtNext]_vars /\ WF_vars(HtNext)

\* The number of recursive descents is at most the level count of TableCode.
DepthBounded == Len(hstack) <= TableLevels + 1 /\ TableLevels <= 7

\* Each activation runs one level below the one that called it.
LevelsDecrease ==
    \A k \in 1..Len(hstack) : hstack[k].level = TableLevels - (k - 1)

\* An array is no longer than a page, and the scan stays inside it.
ScansOnePage ==
    \A k \in 1..Len(hstack) :
        /\ hstack[k].i <= Len(hstack[k].slots)
        /\ Len(hstack[k].slots) * get_obj_size(Target(hstack[k].level)) <= PageSize

\* C14: for every root value and memory content, pointers back to the table
\* itself included, the walk of handles() ends; the recursion is never deeper
\* than the level count of TableCode, the level goes down by one with each
\* descent, and a scan visits at most one page of slots.
C14_WalkTerminates ==
    /\ <>(hpc = "done")
    /\ [](DepthBounded /\ LevelsDecrease /\ ScansOnePage)

\* A root of level 2 whose pointer leads back to the root, and again: three
\* activations on the same page, the last one yielding a header.
C14_Witness ==
    /\ Len(hstack) = 3 /\ TableLevels = 2
    /\ hstack[2].offset = hstack[1].offset
    /\ hstack[3].offset = hstack[1].offset
    /\ handlesOut # <<>>

\* The same on the images without back pointers.
WalkTerminatesWithoutBackPointers ==
    /\ <>(hpc = "done")
    /\ [](DepthBounded /\ LevelsDecrease /\ ScansOnePage)

====
